---- MODULE Spec2Model ----
(***************************************************************************)
(* The assignment engine of assign_events.py: assign_events with its       *)
(* helpers days_between, gender_diff and candidate_key.                    *)
(*                                                                         *)
(* Participants and events are the objects read_participants and           *)
(* read_events build: one fresh object per row, so a list holds no object  *)
(* twice, and both are named here by their position in the input list.     *)
(* Dates are proleptic Gregorian ordinals (datetime.date.toordinal),       *)
(* distances are whole numbers, and an unset Optional is None.             *)
(***************************************************************************)
EXTENDS Integers, Sequences, FiniteSets

VARIABLES
    participants,       \* the participants argument: list of Participant
    events,             \* the events argument: list of Event
    p_assignments,      \* Participant.assignments, per participant
    e_assignments,      \* Event.assignments, per event
    country_counts,     \* the current event's country_counts
    gender_counts,      \* the current event's gender_counts
    event_pos,          \* how far `for event in events` has got (1-based)
    slot,               \* iterations of `for _ in range(event.capacity)` done
    chosen,             \* the local `chosen` of the current slot
    pc,                 \* "slot", "append", "done" or "IndexError"
    eligible_at_start,  \* history: len(candidates) when each event began
    run,                \* 1 for the first call, 2 for the repeated one
    first_result        \* the assignment lists the first call ended with

vars == <<participants, events, p_assignments, e_assignments, country_counts,
          gender_counts, event_pos, slot, chosen, pc, eligible_at_start,
          run, first_result>>

----------------------------------------------------------------------------
(* Bounds of the model *)

NumParticipants == 3
NumEvents == 3
MaxCapacity == 4

Participants == 1..NumParticipants
Events == 1..NumEvents

----------------------------------------------------------------------------
(* Values of the domain model *)

None == "None"

\* Optional[float] distance: a whole number, or NoDistance for None.
NoDistance == -1

Neutral ==
    [preferred_school |-> None, preferred_days |-> {}, distance |-> NoDistance,
     country |-> None, gender |-> None]

\* Participants that differ from Neutral in a ranking attribute.
RankingProfiles ==
    { Neutral,
      [Neutral EXCEPT !.preferred_school = "False"],
      [Neutral EXCEPT !.preferred_days = {"monday"}],
      [Neutral EXCEPT !.distance = 5],
      [Neutral EXCEPT !.distance = 50],
      [Neutral EXCEPT !.country = "US"],
      [Neutral EXCEPT !.country = "FR"],
      [Neutral EXCEPT !.country = "US", !.gender = "M"],
      [Neutral EXCEPT !.gender = "M"],
      [Neutral EXCEPT !.gender = "F"] }

SchedulingProfiles ==
    { Neutral, [Neutral EXCEPT !.distance = 50] }

\* Days from one event of the list to the next.
Gaps == {-30, 10, 30}
BaseDate == 1 + 7 * 30

RECURSIVE DatesFrom(_, _)
DatesFrom(first, gaps) ==
    IF gaps = << >> THEN << first >>
    ELSE << first >> \o DatesFrom(first + Head(gaps), Tail(gaps))

SchedulingEvents ==
    { [e \in Events |->
          [date |-> DatesFrom(BaseDate, gaps)[e], capacity |-> caps[e],
           school_event |-> None]] :
      gaps \in [1..(NumEvents - 1) -> Gaps],
      caps \in [Events -> {0, 1, MaxCapacity}] }

\* Events 10 and 30 days apart in turn, the first one on a Monday, each with
\* room for all participants but one.
RankingGap(e) == IF e % 2 = 1 THEN 10 ELSE 30

RankingEvents ==
    { [e \in Events |->
          [date |-> DatesFrom(1, [i \in 1..(NumEvents - 1) |-> RankingGap(i)])[e],
           capacity |-> NumParticipants - 1, school_event |-> s]] :
      s \in {None, "True", "False"} }

----------------------------------------------------------------------------
(* Helpers *)

Abs(n) == IF n < 0 THEN -n ELSE n

days_between(d1, d2) == Abs(d1 - d2)

\* date.strftime("%A").lower(): ordinal 1 (0001-01-01) is a Monday.
DayNames ==
    << "monday", "tuesday", "wednesday", "thursday", "friday", "saturday",
       "sunday" >>

weekday_name(date) == DayNames[((date + 6) % 7) + 1]

\* counts.get(k, 0) on a defaultdict(int) whose keys are strings.
Get(counts, k) == IF k \in DOMAIN counts THEN counts[k] ELSE 0

\* counts[k] += 1
Incremented(counts, k) ==
    [x \in DOMAIN counts \cup {k} |-> IF x = k THEN Get(counts, k) + 1 ELSE counts[x]]

EmptyCounts == [x \in {} |-> 0]

\* gender_diff without the speculative increment.
gender_diff_committed(counts, gender) ==
    Abs(Get(counts, "M") - Get(counts, "F"))

gender_diff(counts, gender) ==
    LET copy == IF gender # None THEN Incremented(counts, gender) ELSE counts
    IN  Abs(Get(copy, "M") - Get(copy, "F"))

\* candidate_key with the country score left at 0.
candidate_key_no_country(participant, event, ccounts, gcounts) ==
    LET school_score ==
            IF /\ participant.preferred_school # None
               /\ event.school_event # None
               /\ participant.preferred_school # event.school_event
            THEN 1 ELSE 0
        day == weekday_name(event.date)
        day_score ==
            IF participant.preferred_days # {} /\ day \notin participant.preferred_days
            THEN 1 ELSE 0
        distance_score ==
            IF participant.distance # NoDistance THEN participant.distance ELSE 0
        gender_score == gender_diff(gcounts, participant.gender)
    IN  << school_score, day_score, distance_score, 0, gender_score >>

candidate_key(participant, event, ccounts, gcounts) ==
    LET school_score ==
            IF /\ participant.preferred_school # None
               /\ event.school_event # None
               /\ participant.preferred_school # event.school_event
            THEN 1 ELSE 0
        day == weekday_name(event.date)
        day_score ==
            IF participant.preferred_days # {} /\ day \notin participant.preferred_days
            THEN 1 ELSE 0
        distance_score ==
            IF participant.distance # NoDistance THEN participant.distance ELSE 0
        country_score == Get(ccounts, participant.country)
        gender_score == gender_diff(gcounts, participant.gender)
    IN  << school_score, day_score, distance_score, country_score, gender_score >>

\* Python's order on tuples of equal length.
TupleLess(a, b) ==
    \E i \in 1..Len(a) :
        /\ a[i] < b[i]
        /\ \A j \in 1..(i - 1) : a[j] = b[j]

\* The sequence holding the elements of list in key order, equal keys in
\* their order in list.
StableSorted(list, keys) ==
    LET n == Len(list)
        Before(i, j) ==
            \/ TupleLess(keys[list[i]], keys[list[j]])
            \/ keys[list[i]] = keys[list[j]] /\ i < j
        Rank(i) == 1 + Cardinality({j \in 1..n : Before(j, i)})
    IN  [r \in 1..n |-> list[CHOOSE i \in 1..n : Rank(i) = r]]

\* Every list in key order, equal keys in any order: an unstable sort.
list_sort_unstable(list, keys) ==
    LET n == Len(list)
    IN  { [r \in 1..n |-> list[perm[r]]] :
            perm \in { f \in [1..n -> 1..n] :
                         /\ \A i, j \in 1..n : i # j => f[i] # f[j]
                         /\ \A i, j \in 1..n :
                              i < j => ~TupleLess(keys[list[f[j]]], keys[list[f[i]]]) } }

\* The lists list.sort(key=...) may leave: the sort is stable, so exactly one.
list_sort(list, keys) == { StableSorted(list, keys) }

----------------------------------------------------------------------------
(* assign_events *)

\* The list visited back to front.
EventAtReversed(pos) == NumEvents + 1 - pos

\* `for event in events` visits the list front to back.
EventAt(pos) == pos

event == EventAt(event_pos)

\* The spacing comparison turned around.
far_enough_flipped(days) == days <= 30

far_enough(days) == days >= 30

\* The assignment cap off by one.
under_cap_inclusive(n) == n <= 2

under_cap(n) == n < 2

\* Eligibility without the spacing condition.
EligibleNoSpacing(p, e, assignments) == under_cap(Len(assignments[p]))

\* The condition of the list comprehension that builds candidates.
Eligible(p, e, assignments) ==
    /\ under_cap(Len(assignments[p]))
    /\ \A i \in 1..Len(assignments[p]) :
           far_enough(days_between(events[e].date, events[assignments[p][i]].date))

ParticipantList == [i \in Participants |-> i]

candidates ==
    SelectSeq(ParticipantList, LAMBDA p : Eligible(p, event, p_assignments))

keys ==
    [p \in Participants |->
        candidate_key(participants[p], events[event], country_counts, gender_counts)]

\* One iteration too many.
range_exhausted_late(n, capacity) == n > capacity

\* `for _ in range(capacity)` has no iteration left after n of them.
range_exhausted(n, capacity) == n >= capacity

\* The emptiness test left out.
never_empty(list) == FALSE

\* `if not candidates`
no_candidates(list) == list = << >>

\* The participant's list left as it was.
link_forgotten(p, e) == p_assignments

\* chosen.assignments.append(event)
link(p, e) == [p_assignments EXCEPT ![p] = Append(@, e)]

\* The end of one event's fill loop: the next event with fresh counters, or
\* the end of the run.
EndEvent ==
    /\ IF event_pos < NumEvents
       THEN /\ event_pos' = event_pos + 1
            /\ pc' = "slot"
            /\ eligible_at_start' =
                   Append(eligible_at_start,
                          Len(SelectSeq(ParticipantList,
                                        LAMBDA p : Eligible(p, EventAt(event_pos + 1),
                                                            p_assignments))))
       ELSE /\ pc' = "done"
            /\ UNCHANGED <<event_pos, eligible_at_start>>
    /\ slot' = 0
    /\ country_counts' = EmptyCounts
    /\ gender_counts' = EmptyCounts
    /\ UNCHANGED <<participants, events, p_assignments, e_assignments, chosen,
                   run, first_result>>

\* One slot, up to event.assignments.append(chosen); candidates[0] of an
\* empty list raises IndexError.
Pick ==
    /\ pc = "slot"
    /\ ~range_exhausted(slot, events[event].capacity)
    /\ ~no_candidates(candidates)
    /\ IF Len(candidates) = 0
       THEN /\ pc' = "IndexError"
            /\ UNCHANGED <<chosen, e_assignments>>
       ELSE \E sorted \in list_sort(candidates, keys) :
                /\ chosen' = sorted[1]
                /\ e_assignments' = [e_assignments EXCEPT ![event] = Append(@, sorted[1])]
                /\ pc' = "append"
    /\ UNCHANGED <<participants, events, p_assignments, country_counts,
                   gender_counts, event_pos, slot, eligible_at_start, run,
                   first_result>>

\* The rest of the slot: chosen.assignments.append(event) and the counters.
Link ==
    /\ pc = "append"
    /\ p_assignments' = link(chosen, event)
    /\ country_counts' =
           IF participants[chosen].country # None
           THEN Incremented(country_counts, participants[chosen].country)
           ELSE country_counts
    /\ gender_counts' =
           IF participants[chosen].gender # None
           THEN Incremented(gender_counts, participants[chosen].gender)
           ELSE gender_counts
    /\ slot' = slot + 1
    /\ pc' = "slot"
    /\ UNCHANGED <<participants, events, e_assignments, event_pos, chosen,
                   eligible_at_start, run, first_result>>

\* `if not candidates: break`
Break ==
    /\ pc = "slot"
    /\ ~range_exhausted(slot, events[event].capacity)
    /\ no_candidates(candidates)
    /\ EndEvent

\* The fill loop has run event.capacity times.
Full ==
    /\ pc = "slot"
    /\ range_exhausted(slot, events[event].capacity)
    /\ EndEvent

\* The state assign_events(ps, es) starts in, all assignment lists empty.
Start(ps, es) ==
    /\ participants = ps
    /\ events = es
    /\ p_assignments = [p \in Participants |-> << >>]
    /\ e_assignments = [e \in Events |-> << >>]
    /\ country_counts = EmptyCounts
    /\ gender_counts = EmptyCounts
    /\ event_pos = 1
    /\ slot = 0
    /\ chosen = 1
    /\ pc = "slot"
    /\ eligible_at_start = << NumParticipants >>

\* The same input read again and assign_events called a second time.
Rerun ==
    /\ pc = "done"
    /\ run = 1
    /\ run' = 2
    /\ first_result' = << e_assignments, p_assignments >>
    /\ p_assignments' = [p \in Participants |-> << >>]
    /\ e_assignments' = [e \in Events |-> << >>]
    /\ country_counts' = EmptyCounts
    /\ gender_counts' = EmptyCounts
    /\ event_pos' = 1
    /\ slot' = 0
    /\ pc' = "slot"
    /\ eligible_at_start' = << NumParticipants >>
    /\ UNCHANGED <<participants, events, chosen>>

Init ==
    /\ \E ps \in [Participants -> SchedulingProfiles], es \in SchedulingEvents :
           Start(ps, es)
    /\ run = 1
    /\ first_result = << >>

InitRanking ==
    /\ \E ps \in [Participants -> RankingProfiles], es \in RankingEvents :
           Start(ps, es)
    /\ run = 1
    /\ first_result = << >>

Next == Pick \/ Link \/ Break \/ Full

NextRerun == Next \/ Rerun

Spec == Init /\ [][Next]_vars

SpecRanking == InitRanking /\ [][Next]_vars

SpecRerun == InitRanking /\ [][NextRerun]_vars

----------------------------------------------------------------------------
(* Properties *)

Range(seq) == { seq[i] : i \in DOMAIN seq }

Min(a, b) == IF a <= b THEN a ELSE b

DaysApart(e1, e2) ==
    IF events[e1].date >= events[e2].date
    THEN events[e1].date - events[e2].date
    ELSE events[e2].date - events[e1].date

\* C1: at every point of a run, any two assignments of one participant are
\* events at least 30 days apart.
SpacingInvariant ==
    \A p \in Participants :
        \A i, j \in DOMAIN p_assignments[p] :
            i < j => DaysApart(p_assignments[p][i], p_assignments[p][j]) >= 30

\* A participant holds two assignments at the end of a run.
SpacingWitness ==
    /\ pc = "done"
    /\ \E p \in Participants : Len(p_assignments[p]) = 2

\* C2: at every point of a run, no participant holds more than 2 assignments.
AssignmentCap ==
    \A p \in Participants : Len(p_assignments[p]) <= 2

\* A slot is open at an event 30 days or more from both assignments of a
\* participant that already holds two.
AssignmentCapWitness ==
    /\ pc = "slot"
    /\ slot < events[event].capacity
    /\ \E p \in Participants :
           /\ Len(p_assignments[p]) = 2
           /\ \A i \in 1..2 : DaysApart(event, p_assignments[p][i]) >= 30

\* C3: at every point of a run, no event holds more participants than its
\* capacity.
CapacityBound ==
    \A e \in Events : Len(e_assignments[e]) <= events[e].capacity

\* An event is full while eligible participants remain.
CapacityBoundWitness ==
    /\ pc = "slot"
    /\ events[event].capacity > 0
    /\ Len(e_assignments[event]) = events[event].capacity
    /\ candidates # << >>

\* C4: between slot iterations and at the end of a run, p is in
\* e.assignments exactly when e is in p.assignments.
Symmetry ==
    pc \in {"slot", "done"} =>
        \A e \in Events, p \in Participants :
            p \in Range(e_assignments[e]) <=> e \in Range(p_assignments[p])

\* A run has ended with a participant assigned to two events.
SymmetryWitness ==
    /\ pc = "done"
    /\ \E p \in Participants, e1, e2 \in Events :
           /\ e1 # e2
           /\ p \in Range(e_assignments[e1])
           /\ p \in Range(e_assignments[e2])

\* C5: at every point of a run, no participant occurs twice in the
\* assignment list of one event.
NoDuplicateSlot ==
    \A e \in Events :
        \A i, j \in DOMAIN e_assignments[e] :
            i # j => e_assignments[e][i] # e_assignments[e][j]

\* An event with more capacity than there are participants has taken every
\* participant once and its fill loop has ended.
NoDuplicateSlotWitness ==
    \E e \in Events :
        /\ events[e].capacity > NumParticipants
        /\ Len(e_assignments[e]) = NumParticipants
        /\ pc = "done" \/ (pc = "slot" /\ event > e)

\* The participants eligible for event e, by the rule of the data model.
EligibleSet(e) ==
    { p \in Participants :
        /\ Len(p_assignments[p]) < 2
        /\ \A a \in Range(p_assignments[p]) : DaysApart(e, a) >= 30 }

\* C6: every event whose fill loop has ended holds min(capacity, number of
\* participants eligible when the loop began) participants; no IndexError
\* is raised; and a run ends only after every event has been processed.
FillCount ==
    /\ pc # "IndexError"
    /\ (pc = "slot" /\ slot = 0) =>
           eligible_at_start[event_pos] = Cardinality(EligibleSet(event))
    /\ pc = "done" => Len(eligible_at_start) = NumEvents
    /\ \A k \in 1..Len(eligible_at_start) :
           (pc = "done" \/ k < event_pos) =>
               Len(e_assignments[EventAt(k)]) =
                   Min(events[EventAt(k)].capacity, eligible_at_start[k])

\* A run has ended in which an event took some participants but fewer than
\* its capacity, and a later event took participants too.
FillCountWitness ==
    /\ pc = "done"
    /\ \E e1, e2 \in Events :
           /\ e1 < e2
           /\ Len(e_assignments[e1]) > 0
           /\ Len(e_assignments[e1]) < events[e1].capacity
           /\ Len(e_assignments[e2]) > 0

EventOrder ==
    [][\A i, j \in Events :
           (i < j /\ (e_assignments[j] # << >> \/ (pc # "done" /\ event >= j)))
               => e_assignments'[i] = e_assignments[i]]_vars

\* Two events of the list both hold participants.
EventOrderWitness ==
    /\ e_assignments[1] # << >>
    /\ e_assignments[NumEvents] # << >>

\* The number of participants committed to the current event with gender g.
Committed(g) ==
    Cardinality({ i \in DOMAIN e_assignments[event] :
                    participants[e_assignments[event][i]].gender = g })

SpeculativeDiff(p) ==
    LET m == Committed("M") + (IF participants[p].gender = "M" THEN 1 ELSE 0)
        f == Committed("F") + (IF participants[p].gender = "F" THEN 1 ELSE 0)
    IN  IF m >= f THEN m - f ELSE f - m

Position(seq, x) == CHOOSE i \in DOMAIN seq : seq[i] = x

\* Candidates a and b of the open slot: one is M and one F, their first four
\* scores agree, nobody of a's gender is committed to the event yet and
\* somebody of b's gender is.
UnderRepresented(a, b) ==
    /\ a \in Range(candidates)
    /\ b \in Range(candidates)
    /\ { participants[a].gender, participants[b].gender } = {"M", "F"}
    /\ \A k \in 1..4 : keys[a][k] = keys[b][k]
    /\ Committed(participants[a].gender) = 0
    /\ Committed(participants[b].gender) > 0

\* C9: in a slot, a candidate of the gender missing from the event gets a
\* smaller speculative |M-F| score than a candidate of the opposite, already
\* present gender with otherwise equal scores, and is sorted ahead of it.
GenderBalance ==
    (pc = "slot" /\ slot < events[event].capacity) =>
        \A a, b \in Participants :
            UnderRepresented(a, b) =>
                /\ keys[a][5] = SpeculativeDiff(a)
                /\ keys[b][5] = SpeculativeDiff(b)
                /\ keys[a][5] < keys[b][5]
                /\ \A sorted \in list_sort(candidates, keys) :
                       Position(sorted, a) < Position(sorted, b)

\* Such a pair exists where the under-represented candidate comes later in
\* the input list.
GenderBalanceWitness ==
    /\ pc = "slot"
    /\ slot < events[event].capacity
    /\ \E a, b \in Participants : UnderRepresented(a, b) /\ a > b

\* The participants committed to the current event before the open slot.
CommittedBefore ==
    IF pc = "append"
    THEN SubSeq(e_assignments[event], 1, Len(e_assignments[event]) - 1)
    ELSE e_assignments[event]

\* The key of participant p for the current event, from the committed
\* participants themselves.
ExpectedKey(p) ==
    LET part == participants[p]
        ev == events[event]
        before == CommittedBefore
        with(g) == Cardinality({ i \in DOMAIN before : participants[before[i]].gender = g })
        m == with("M") + (IF part.gender = "M" THEN 1 ELSE 0)
        f == with("F") + (IF part.gender = "F" THEN 1 ELSE 0)
    IN  << IF part.preferred_school \in {"True", "False"}
              /\ ev.school_event \in {"True", "False"}
              /\ part.preferred_school # ev.school_event
           THEN 1 ELSE 0,
           IF part.preferred_days # {} /\ weekday_name(ev.date) \notin part.preferred_days
           THEN 1 ELSE 0,
           IF part.distance = NoDistance THEN 0 ELSE part.distance,
           Cardinality({ i \in DOMAIN before :
                           /\ part.country # None
                           /\ participants[before[i]].country = part.country }),
           IF m >= f THEN m - f ELSE f - m >>

LexLess(a, b) ==
    \/ a[1] < b[1]
    \/ a[1] = b[1] /\ a[2] < b[2]
    \/ a[1] = b[1] /\ a[2] = b[2] /\ a[3] < b[3]
    \/ a[1] = b[1] /\ a[2] = b[2] /\ a[3] = b[3] /\ a[4] < b[4]
    \/ a[1] = b[1] /\ a[2] = b[2] /\ a[3] = b[3] /\ a[4] = b[4] /\ a[5] < b[5]

\* C10: the participant chosen for a slot is eligible, no eligible
\* participant has a smaller key, and none with an equal key comes earlier
\* in the input list; so with equal more significant scores it is never
\* chosen over an eligible participant without day preference when its own
\* preferred days exclude the event's weekday, nor over a nearer one.
GreedyChoice ==
    pc = "append" =>
        /\ chosen \in EligibleSet(event)
        /\ \A q \in EligibleSet(event) :
               /\ ~LexLess(ExpectedKey(q), ExpectedKey(chosen))
               /\ ExpectedKey(q) = ExpectedKey(chosen) => chosen <= q
               \* no day preference goes before a preference that excludes
               \* the event's weekday
               /\ ~ /\ participants[q].preferred_days = {}
                     /\ participants[chosen].preferred_days # {}
                     /\ weekday_name(events[event].date)
                            \notin participants[chosen].preferred_days
                     /\ ExpectedKey(q)[1] = ExpectedKey(chosen)[1]
               \* nearer goes before farther
               /\ ~ /\ participants[q].distance # NoDistance
                     /\ participants[chosen].distance # NoDistance
                     /\ participants[q].distance < participants[chosen].distance
                     /\ ExpectedKey(q)[1] = ExpectedKey(chosen)[1]
                     /\ ExpectedKey(q)[2] = ExpectedKey(chosen)[2]

\* A participant was chosen over an eligible one earlier in the input list
\* with a larger key, and over a later one with an equal key.
GreedyChoiceWitness ==
    /\ pc = "append"
    /\ \E q \in EligibleSet(event) :
           q < chosen /\ LexLess(ExpectedKey(chosen), ExpectedKey(q))
    /\ \E q \in EligibleSet(event) :
           q > chosen /\ ExpectedKey(q) = ExpectedKey(chosen)

====
